---------------------------- MODULE Spec2Model ----------------------------
(***************************************************************************)
(* A model of eggo's cluster orchestration layer (eggo/fabric_cli.py and   *)
(* eggo/util.py): the host resolver, the provisioning task, the artifact   *)
(* deletion tasks, the multi-host tasks and the repository install steps.  *)
(* Each component has its own specification over the shared variables; the *)
(* variables of the other components stay at their initial values.         *)
(***************************************************************************)
EXTENDS Integers, Sequences, FiniteSets, TLC

VARIABLES
    exec_ctx,       \* fabric_cli.exec_ctx: the configured execution context
    err,            \* the exception that left the running task, or NoError
    \* ---- host resolver ----
    clusterMaster,  \* backend: the host the master query answers with
    clusterSlaves,  \* backend: the slave hosts, in the backend's order
    hpc,            \* position inside get_worker_hosts()
    masterRet,      \* value returned by get_master_host() at line 133
    slaveMaster,    \* `master` local of get_slave_hosts() (line 122)
    hosts,          \* `hosts` local of get_slave_hosts()
    asked,          \* ghost: the master the backend answered that call with
    reported,       \* ghost: the slave list the backend answered with
    workers,        \* value returned by get_worker_hosts()
    changes,        \* number of membership changes so far (bounded)
    second,         \* whether the running call is the second one of the process
    stable,         \* ghost: the membership has not changed since the call started
    observed,       \* ghost: the master the call before this one returned
    \* ---- storage ----
    dfs,            \* eggo_config [dfs]: dfs_root_url, dfs_raw_data_url, dfs_tmp_data_url
    fs,             \* the local filesystem: the directories that exist
    s3,             \* the object store: the keys of the bucket
    denied,         \* the object store: the keys whose deletion it refuses
    \* ---- artifact deletion tasks ----
    lastOp,         \* the task that ran last
    lastConfig,     \* its config argument
    repeated,       \* ghost: the task before it was the same, with the same argument
    preFs,          \* ghost: fs when the last task started
    preS3,          \* ghost: s3 when the last task started
    attempted,      \* ghost: the deletes the last task started, in order
    \* ---- provision and list ----
    ppc,            \* position inside provision()
    calls,          \* the external commands and API calls issued so far
    instances,      \* EC2: the instances launched with the configured key pair
    tagFaults,      \* EC2: the instances whose tagging request fails
    launchFails,    \* whether the launch command exits with an error
    tags,           \* EC2: the tag keys set on each instance
    todo,           \* the instances the tagging loop has still to visit
    listed,         \* whether list() has run, and how it ended
    \* ---- multi-host tasks: deploy_config, update_eggo, setup_slaves ----
    xop,            \* the task fab was started with
    envParallel,    \* fabric's env.parallel
    mode,           \* how execute() runs the hosts, fixed when it starts
    xhosts,         \* the hosts argument of execute()
    failing,        \* the hosts on which a command of the task fails
    results,        \* what execute() has collected for each host
    next,           \* serial execution: index of the host to run next
    xpc,            \* position inside execute()
    \* ---- install_adam / install_eggo on one host ----
    installing,     \* which repository is installed: "adam" or "eggo"
    branch,         \* the configured branch (adam_branch / eggo_branch)
    repoAt,         \* the host: "absent", or the branch checked out in the home directory
    built,          \* the host: the branch that was built or installed, or "none"
    ipc,            \* position inside the install function
    cmds,           \* the remote commands this run has issued
    found,          \* ghost: what exists(home) answered in this run
    faults,         \* number of failed commands so far (bounded)
    runs,           \* number of runs started so far (bounded)
    fresh,          \* ghost: the home directory was absent before the first run
    \* ---- toast ----
    tconfig,        \* the job config file given to toast: what reading it gives
    tfail,          \* the step of toast's do() that fails, if one does
    thosts,         \* the hosts argument of toast's execute()
    ti,             \* index in thosts of the host do() runs on
    tpc,            \* position inside toast
    tlog,           \* what toast has done so far: parsing, transfers, commands
    \* ---- sudo ----
    sudoCalls,      \* the calls of sudo() so far: arguments and what each did
    \* ---- util.make_local_tmp / util.make_hdfs_tmp ----
    mkind,          \* which context manager is entered: "local" or "hdfs"
    mperm,          \* the permissions argument of make_hdfs_tmp
    mname,          \* the directory name the call has chosen
    mbody,          \* how the body of the with statement ends
    mfail,          \* the command of the context manager that fails, if one does
    mpc,            \* position inside the context manager
    tmpdirs,        \* the temporary directories that exist
    \* ---- setup_master ----
    spc,            \* position inside setup_master
    sdone,          \* the steps of do() that have run to their end, in order
    sfail           \* index of the step whose remote command fails, 0 for none

hostVars == <<clusterMaster, clusterSlaves, hpc, masterRet, slaveMaster,
              hosts, asked, reported, workers, changes, second, stable, observed>>

storeVars == <<dfs, fs, s3, denied>>

delVars == <<lastOp, lastConfig, repeated, preFs, preS3, attempted>>

provVars == <<ppc, calls, instances, tagFaults, launchFails, tags, todo, listed>>

execVars == <<xop, envParallel, mode, xhosts, failing, results, next, xpc>>

instVars == <<installing, branch, repoAt, built, ipc, cmds, found, faults, runs,
              fresh>>

toastVars == <<tconfig, tfail, thosts, ti, tpc, tlog>>

sudoVars == <<sudoCalls>>

tmpVars == <<mkind, mperm, mname, mbody, mfail, mpc, tmpdirs>>

setupVars == <<spc, sdone, sfail>>

auxVars == <<toastVars, sudoVars, tmpVars, setupVars>>

vars == <<exec_ctx, err, hostVars, storeVars, delVars, provVars, execVars, instVars,
          auxVars>>

(***************************************************************************)
(* Bounds of the model.                                                    *)
(***************************************************************************)
MaxSlaves == 2
MaxChanges == 2
MaxInstances == 2
MaxExecHosts == 3
MaxFaults == 1
MaxRuns == 2
\* keys in one page of a bucket listing (1000 in S3)
PageSize == 2

Hosts == {"h1", "h2", "h3"}
Contexts == {"local", "spark_ec2", "director"}
\* a configured value outside the three the code knows
AllContexts == Contexts \cup {"mesos"}

NoHost == "-"
NoError == [type |-> "none", msg |-> <<>>]

(***************************************************************************)
(* Sequences of distinct hosts up to a length: the memberships a backend   *)
(* can report.                                                             *)
(***************************************************************************)
DistinctSeqs(S, n) ==
    {s \in UNION {[1..k -> S] : k \in 0..n} :
        \A i, j \in DOMAIN s : i # j => s[i] # s[j]}

Range(s) == {s[i] : i \in DOMAIN s}

(***************************************************************************)
(* The error every unsupported branch raises:                              *)
(*   NotImplementedError('{} exec ctx is not supported for this method')   *)
(* The message is kept as its sequence of words.                           *)
(***************************************************************************)
NotSupportedMsg(ctx) ==
    <<ctx, "exec", "ctx", "is", "not", "supported", "for", "this", "method">>

NotImplementedError(ctx) ==
    [type |-> "NotImplementedError", msg |-> NotSupportedMsg(ctx)]

(***************************************************************************)
(* get_master_host(): spark_ec2 parses the third line of the output of     *)
(* `spark-ec2 get-master` (result.split('\n')[2]); director asks the       *)
(* gateway host; local is the fixed 'localhost'.                           *)
(***************************************************************************)
GetMasterOutput(master) ==
    <<"Searching for existing cluster", "Found 1 master(s)", master>>

ParseMaster(lines) == lines[3]

\* as get_master_host, answering with what an earlier call has returned
get_master_host_cached(ctx, master) ==
    IF observed # NoHost THEN observed
    ELSE IF ctx = "spark_ec2" THEN ParseMaster(GetMasterOutput(master))
    ELSE IF ctx = "director" THEN master
    ELSE "localhost"

get_master_host(ctx, master) ==
    IF ctx = "spark_ec2" THEN ParseMaster(GetMasterOutput(master))
    ELSE IF ctx = "director" THEN master
    ELSE "localhost"

(***************************************************************************)
(* run('echo $SLAVES').split(): the words of the output, separators        *)
(* dropped.                                                                *)
(***************************************************************************)
RECURSIVE EchoSlaves(_)
EchoSlaves(s) ==
    IF s = <<>> THEN <<>>
    ELSE IF Len(s) = 1 THEN <<s[1]>>
    ELSE <<s[1], " ">> \o EchoSlaves(Tail(s))

RECURSIVE Split(_)
Split(out) ==
    IF out = <<>> THEN <<>>
    ELSE IF out[1] = " " THEN Split(Tail(out))
    ELSE <<out[1]>> \o Split(Tail(out))

(***************************************************************************)
(* get_worker_hosts(): [get_master_host()] + get_slave_hosts()             *)
(***************************************************************************)
WorkerListSlavesOnly(master, slaves) == slaves

WorkerList(master, slaves) == <<master>> \o slaves

HostsInit ==
    /\ clusterMaster \in Hosts
    /\ clusterSlaves \in DistinctSeqs(Hosts, MaxSlaves)
    /\ hpc = "start"
    /\ masterRet = NoHost
    /\ slaveMaster = NoHost
    /\ hosts = <<>>
    /\ asked = NoHost
    /\ reported = <<>>
    /\ workers = <<>>
    /\ changes = 0
    /\ second = FALSE
    /\ stable = TRUE
    /\ observed = NoHost

HostsIdle ==
    /\ clusterMaster = "h1"
    /\ clusterSlaves = <<>>
    /\ hpc = "start"
    /\ masterRet = NoHost
    /\ slaveMaster = NoHost
    /\ hosts = <<>>
    /\ asked = NoHost
    /\ reported = <<>>
    /\ workers = <<>>
    /\ changes = 0
    /\ second = FALSE
    /\ stable = TRUE
    /\ observed = NoHost

InstanceIds == {"i1", "i2"}

ProvIdle ==
    /\ ppc = "start"
    /\ calls = <<>>
    /\ instances = <<>>
    /\ tagFaults = {}
    /\ launchFails = FALSE
    /\ tags = [i \in InstanceIds |-> {}]
    /\ todo = <<>>
    /\ listed = "no"

InstIdle ==
    /\ installing = "eggo"
    /\ branch = "master"
    /\ repoAt = "absent"
    /\ built = "none"
    /\ ipc = "start"
    /\ cmds = <<>>
    /\ found = "unknown"
    /\ faults = 0
    /\ runs = 1
    /\ fresh = TRUE

ExecIdle ==
    /\ xop = "none"
    /\ envParallel = FALSE
    /\ mode = "none"
    /\ xhosts = <<>>
    /\ failing = {}
    /\ results = [h \in Hosts |-> "none"]
    /\ next = 1
    /\ xpc = "start"

ToastIdle ==
    /\ tconfig = "valid"
    /\ tfail = "none"
    /\ thosts = <<>>
    /\ ti = 1
    /\ tpc = "start"
    /\ tlog = <<>>

SudoIdle == sudoCalls = <<>>

TmpIdle ==
    /\ mkind = "local"
    /\ mperm = "755"
    /\ mname = <<>>
    /\ mbody = "returns"
    /\ mfail = "none"
    /\ mpc = "start"
    /\ tmpdirs = {}

SetupIdle ==
    /\ spc = "start"
    /\ sdone = <<>>
    /\ sfail = 0

AuxIdle == ToastIdle /\ SudoIdle /\ TmpIdle /\ SetupIdle

\* line 133, left operand: the first get_master_host() call
WH_Master ==
    /\ hpc = "start"
    /\ IF exec_ctx \in Contexts
       THEN /\ masterRet' = get_master_host(exec_ctx, clusterMaster)
            /\ asked' = clusterMaster
            /\ hpc' = "slaves"
            /\ err' = err
       ELSE /\ err' = NotImplementedError(exec_ctx)
            /\ hpc' = "raised"
            /\ UNCHANGED <<auxVars, second, stable, observed, masterRet, asked>>
    /\ UNCHANGED <<auxVars, second, stable, observed, storeVars, delVars, provVars, execVars, instVars, exec_ctx, clusterMaster, clusterSlaves, slaveMaster,
                   hosts, reported, workers, changes>>

\* lines 115-116: director asks the service for the worker hosts
WH_SlavesDirector ==
    /\ hpc = "slaves"
    /\ exec_ctx = "director"
    /\ hosts' = clusterSlaves
    /\ reported' = clusterSlaves
    /\ hpc' = "ret"
    /\ UNCHANGED <<auxVars, second, stable, observed, storeVars, delVars, provVars, execVars, instVars, exec_ctx, err, clusterMaster, clusterSlaves, masterRet,
                   slaveMaster, asked, workers, changes>>

\* line 122: spark_ec2 resolves the master a second time
WH_SlavesResolveMaster ==
    /\ hpc = "slaves"
    /\ exec_ctx = "spark_ec2"
    /\ slaveMaster' = get_master_host(exec_ctx, clusterMaster)
    /\ hpc' = "run"
    /\ UNCHANGED <<auxVars, second, stable, observed, storeVars, delVars, provVars, execVars, instVars, exec_ctx, err, clusterMaster, clusterSlaves, masterRet,
                   hosts, asked, reported, workers, changes>>

\* lines 118-123: echo $SLAVES on that master, split into words
WH_SlavesRun ==
    /\ hpc = "run"
    /\ hosts' = Split(EchoSlaves(clusterSlaves))
    /\ reported' = clusterSlaves
    /\ hpc' = "ret"
    /\ UNCHANGED <<auxVars, second, stable, observed, storeVars, delVars, provVars, execVars, instVars, exec_ctx, err, clusterMaster, clusterSlaves, masterRet,
                   slaveMaster, asked, workers, changes>>

\* lines 124-125: local has no slaves
WH_SlavesLocal ==
    /\ hpc = "slaves"
    /\ exec_ctx = "local"
    /\ hosts' = <<>>
    /\ reported' = <<>>
    /\ hpc' = "ret"
    /\ UNCHANGED <<auxVars, second, stable, observed, storeVars, delVars, provVars, execVars, instVars, exec_ctx, err, clusterMaster, clusterSlaves, masterRet,
                   slaveMaster, asked, workers, changes>>

\* line 133: the concatenation is returned
WH_Return ==
    /\ hpc = "ret"
    /\ workers' = WorkerList(masterRet, hosts)
    /\ hpc' = "done"
    /\ UNCHANGED <<auxVars, second, stable, observed, storeVars, delVars, provVars, execVars, instVars, exec_ctx, err, clusterMaster, clusterSlaves, masterRet,
                   slaveMaster, hosts, asked, reported, changes>>

\* the cluster's membership changes behind the resolver's back
BackendChange ==
    /\ changes < MaxChanges
    /\ hpc \in {"start", "slaves", "run", "ret"}
    /\ \E m \in Hosts, s \in DistinctSeqs(Hosts, MaxSlaves) :
          /\ <<m, s>> # <<clusterMaster, clusterSlaves>>
          /\ clusterMaster' = m
          /\ clusterSlaves' = s
    /\ changes' = changes + 1
    /\ stable' = FALSE
    /\ UNCHANGED <<auxVars, second, observed, storeVars, delVars, provVars, execVars, instVars, exec_ctx, err, hpc, masterRet, slaveMaster, hosts,
                   asked, reported, workers>>

\* get_worker_hosts() is called once more in the same process; the locals
\* and the result of the call before are gone
WH_Again ==
    /\ hpc = "done"
    /\ ~second
    /\ second' = TRUE
    /\ stable' = TRUE
    /\ observed' = workers[1]
    /\ hpc' = "start"
    /\ masterRet' = NoHost
    /\ slaveMaster' = NoHost
    /\ hosts' = <<>>
    /\ asked' = NoHost
    /\ reported' = <<>>
    /\ workers' = <<>>
    /\ UNCHANGED <<auxVars, storeVars, delVars, provVars, execVars, instVars, exec_ctx,
                   err, clusterMaster, clusterSlaves, changes>>

(***************************************************************************)
(* Strings.  A string is the sequence of its tokens: the separators "/"    *)
(* and ":", the dot names "." and "..", and plain words.  A path in the    *)
(* local filesystem is the sequence of its segments, each segment a string *)
(* without "/"; the filesystem is the set of the directories that exist.   *)
(***************************************************************************)
StartsWith(s, p) == Len(p) <= Len(s) /\ SubSeq(s, 1, Len(p)) = p

EndsWith(s, p) ==
    Len(p) <= Len(s) /\ SubSeq(s, Len(s) - Len(p) + 1, Len(s)) = p

\* posixpath.join(a, b)
os_path_join(a, b) ==
    IF StartsWith(b, <<"/">>) THEN b
    ELSE IF a = <<>> \/ EndsWith(a, <<"/">>) THEN a \o b
    ELSE a \o <<"/">> \o b

\* index of the first ":" of a string, 0 when there is none  (url.find(':'))
FindColon(s) ==
    IF \E i \in DOMAIN s : s[i] = ":"
    THEN CHOOSE i \in DOMAIN s : s[i] = ":" /\ \A j \in 1..(i - 1) : s[j] # ":"
    ELSE 0

\* the length of the netloc that follows "//": up to the next "/"
NetlocLen(s) ==
    IF \E i \in DOMAIN s : s[i] = "/"
    THEN (CHOOSE i \in DOMAIN s : s[i] = "/" /\ \A j \in 1..(i - 1) : s[j] # "/") - 1
    ELSE Len(s)

\* urlparse.urlparse(url): the scheme is what precedes the first ":" when
\* that prefix is non-empty and made of scheme characters; a rest that
\* starts with "//" gives the netloc; what is left is the path.
urlparse(url) ==
    LET i == FindColon(url)
        hasScheme == i > 1 /\ \A j \in 1..(i - 1) : url[j] # "/"
        scheme == IF hasScheme THEN SubSeq(url, 1, i - 1) ELSE <<>>
        rest == IF hasScheme THEN SubSeq(url, i + 1, Len(url)) ELSE url
        hasNetloc == StartsWith(rest, <<"/", "/">>)
        after == IF hasNetloc THEN SubSeq(rest, 3, Len(rest)) ELSE rest
        n == IF hasNetloc THEN NetlocLen(after) ELSE 0
    IN  [scheme |-> scheme,
         netloc |-> SubSeq(after, 1, n),
         path |-> SubSeq(after, n + 1, Len(after))]

\* str.lstrip('/')
RECURSIVE lstrip(_)
lstrip(s) == IF s # <<>> /\ s[1] = "/" THEN lstrip(Tail(s)) ELSE s

\* the components of a path string: what stands between the "/"
RECURSIVE Segments(_)
Segments(s) ==
    IF s = <<>> THEN <<>>
    ELSE IF s[1] = "/" THEN Segments(Tail(s))
    ELSE LET n == NetlocLen(s)
         IN  <<SubSeq(s, 1, n)>> \o Segments(SubSeq(s, n + 1, Len(s)))

\* The directory a path string names, resolved as the kernel resolves it:
\* "." stays, ".." goes up, and every directory walked through must exist.
RECURSIVE Walk(_, _, _)
Walk(f, at, segs) ==
    IF at \notin f THEN [ok |-> FALSE, dir |-> at]
    ELSE IF segs = <<>> THEN [ok |-> TRUE, dir |-> at]
    ELSE IF segs[1] = <<".">> THEN Walk(f, at, Tail(segs))
    ELSE IF segs[1] = <<"..">>
         THEN Walk(f, IF at = <<>> THEN at ELSE SubSeq(at, 1, Len(at) - 1),
                   Tail(segs))
    ELSE Walk(f, Append(at, segs[1]), Tail(segs))

Resolve(f, path) == Walk(f, <<>>, Segments(path))

IsPrefix(p, q) == Len(p) <= Len(q) /\ SubSeq(q, 1, Len(p)) = p

\* a directory and everything below it
Subtree(f, dir) == {d \in f : IsPrefix(dir, d)}

OSError == [type |-> "OSError", msg |-> <<>>]

\* shutil.rmtree(path): os.listdir(path) raises when the directory does not
\* exist (ignore_errors is False); the entries are removed recursively;
\* os.rmdir(path) then removes the directory itself, which the kernel
\* refuses for "/" and for a path whose last component is "." or "..".
rmtree(f, path) ==
    LET r == Resolve(f, path)
        segs == Segments(path)
        last == IF segs = <<>> THEN <<>> ELSE segs[Len(segs)]
    IN  IF path = <<>> \/ ~r.ok THEN [fs |-> f, err |-> OSError]
        ELSE IF r.dir = <<>> \/ last \in {<<".">>, <<"..">>}
             THEN [fs |-> (f \ Subtree(f, r.dir)) \cup {r.dir}, err |-> OSError]
        ELSE [fs |-> f \ Subtree(f, r.dir), err |-> NoError]

(***************************************************************************)
(* The object store.  One bucket exists; a key is a string.                *)
(***************************************************************************)
Bucket == <<"bkt">>

S3ResponseError == [type |-> "S3ResponseError", msg |-> <<>>]

\* The order the store lists its keys in.  S3 lists in the byte order of the
\* key names; here it is some fixed total order of the keys.
RECURSIVE KeyOrder(_)
KeyOrder(keys) ==
    IF keys = {} THEN <<>>
    ELSE LET k == CHOOSE k \in keys : TRUE
         IN  <<k>> \o KeyOrder(keys \ {k})

\* One page of a listing (GET Bucket with prefix and marker): the first
\* PageSize keys that start with the prefix and come after the marker, the
\* marker being a position of the order (0: from the start).
get_all_keys(order, prefix, marker) ==
    LET after == {i \in DOMAIN order : i > marker /\ StartsWith(order[i], prefix)}
        page == {i \in after : Cardinality({j \in after : j < i}) < PageSize}
    IN  [keys |-> {order[i] : i \in page},
         is_truncated |-> page # after,
         next_marker |-> IF page = {} THEN marker
                         ELSE CHOOSE i \in page : \A j \in page : j <= i]

\* as bucket_list, reading the first page only
bucket_list_first_page(keys, prefix) ==
    get_all_keys(KeyOrder(keys), prefix, 0).keys

\* the pages of a listing from a marker on: the iterator of the result set
\* asks for the next page as long as the last one was truncated
RECURSIVE bucket_lister(_, _, _)
bucket_lister(order, prefix, marker) ==
    LET rs == get_all_keys(order, prefix, marker)
    IN  IF rs.is_truncated
        THEN rs.keys \cup bucket_lister(order, prefix, rs.next_marker)
        ELSE rs.keys

\* bucket.list(prefix): the keys that start with the prefix, page after page
bucket_list(keys, prefix) == bucket_lister(KeyOrder(keys), prefix, 0)

\* bucket.delete_keys(keys): the keys are sent to the store's multi-object
\* delete; the store removes those it does not refuse and names the others
\* in the errors of the result
delete_keys(keys, matched) ==
    [keys |-> keys \ (matched \ denied), errors |-> matched \cap denied]

(***************************************************************************)
(* Job config files (JSON).  open() fails on an unreadable file.           *)
(***************************************************************************)
IOError == [type |-> "IOError", msg |-> <<>>]

SchemeNotSupported(scheme) ==
    [type |-> "NotImplementedError",
     msg |-> scheme \o <<"dfs", "scheme", "not", "supported">>]

(***************************************************************************)
(* The body the three delete tasks share (lines 368-382, 387-401, 406-420):*)
(* join the configured root with the config's name, parse the URL and      *)
(* dispatch on its scheme.                                                 *)
(***************************************************************************)
\* as delete_dispatch, with the last branch returning instead of raising
delete_dispatch_ignoring(url, f, s) ==
    IF url.scheme = <<"s3n">>
    THEN IF url.netloc # Bucket
         THEN [fs |-> f, s3 |-> s, err |-> S3ResponseError]
         ELSE [fs |-> f,
               s3 |-> delete_keys(s, bucket_list(s, lstrip(url.path))).keys,
               err |-> NoError]
    ELSE IF url.scheme = <<"file">>
    THEN LET r == rmtree(f, url.path)
         IN  [fs |-> r.fs, s3 |-> s, err |-> r.err]
    ELSE [fs |-> f, s3 |-> s, err |-> NoError]

delete_dispatch(url, f, s) ==
    IF url.scheme = <<"s3n">>
    THEN IF url.netloc # Bucket
         THEN [fs |-> f, s3 |-> s, err |-> S3ResponseError]
         ELSE [fs |-> f,
               s3 |-> delete_keys(s, bucket_list(s, lstrip(url.path))).keys,
               err |-> NoError]
    ELSE IF url.scheme = <<"file">>
    THEN LET r == rmtree(f, url.path)
         IN  [fs |-> r.fs, s3 |-> s, err |-> r.err]
    ELSE [fs |-> f, s3 |-> s, err |-> SchemeNotSupported(url.scheme)]

delete_namespace(root, config, f, s) ==
    IF ~config.readable THEN [fs |-> f, s3 |-> s, err |-> IOError]
    ELSE delete_dispatch(urlparse(os_path_join(root, config.name)), f, s)

\* as delete_raw, joining the name with the tmp root
delete_raw_under_tmp(config, d, f, s) == delete_namespace(d.tmp, config, f, s)

delete_raw(config, d, f, s) == delete_namespace(d.raw, config, f, s)

delete_tmp(config, d, f, s) == delete_namespace(d.tmp, config, f, s)

delete_toasted(config, d, f, s) == delete_namespace(d.root, config, f, s)

\* delete_all (lines 424-427): three calls in a row; an exception raised by
\* one of them leaves delete_all at once.
delete_all(config, d, f, s) ==
    LET r1 == delete_tmp(config, d, f, s)
        r2 == delete_raw(config, d, r1.fs, r1.s3)
        r3 == delete_toasted(config, d, r2.fs, r2.s3)
    IN  IF r1.err # NoError
        THEN [fs |-> r1.fs, s3 |-> r1.s3, err |-> r1.err,
              attempted |-> <<"delete_tmp">>]
        ELSE IF r2.err # NoError
        THEN [fs |-> r2.fs, s3 |-> r2.s3, err |-> r2.err,
              attempted |-> <<"delete_tmp", "delete_raw">>]
        ELSE [fs |-> r3.fs, s3 |-> r3.s3, err |-> r3.err,
              attempted |-> <<"delete_tmp", "delete_raw", "delete_toasted">>]

(***************************************************************************)
(* The environment of the storage tasks: the locations the configuration   *)
(* can name, the job configs on disk, and the data the jobs have left.     *)
(***************************************************************************)
Kinds == {"raw", "tmp", "toasted"}

Loc(scheme, netloc, segs) == [scheme |-> scheme, netloc |-> netloc, segs |-> segs]

RECURSIVE SlashJoin(_)
SlashJoin(segs) ==
    IF segs = <<>> THEN <<>>
    ELSE IF Len(segs) = 1 THEN segs[1]
    ELSE segs[1] \o <<"/">> \o SlashJoin(Tail(segs))

\* the URL string of a location, as it stands in the configuration file
UrlString(l) ==
    <<l.scheme, ":", "/", "/">> \o l.netloc \o
    (IF l.segs = <<>> THEN <<>> ELSE <<"/">> \o SlashJoin(l.segs))

Layout(root, raw, tmp) == [root |-> root, raw |-> raw, tmp |-> tmp]

\* raw and tmp below the root, on the local disk
NestedFiles ==
    Layout(Loc("file", <<>>, << <<"data">> >>),
           Loc("file", <<>>, << <<"data">>, <<"raw">> >>),
           Loc("file", <<>>, << <<"data">>, <<"tmp">> >>))

\* three separate local directories
SeparateFiles ==
    Layout(Loc("file", <<>>, << <<"out">> >>),
           Loc("file", <<>>, << <<"in">> >>),
           Loc("file", <<>>, << <<"scratch">> >>))

ObjectStore ==
    Layout(Loc("s3n", Bucket, << <<"eggo">> >>),
           Loc("s3n", Bucket, << <<"eggo">>, <<"raw">> >>),
           Loc("s3n", Bucket, << <<"eggo">>, <<"tmp">> >>))

Hdfs ==
    Layout(Loc("hdfs", <<>>, << <<"user">>, <<"eggo">> >>),
           Loc("hdfs", <<>>, << <<"user">>, <<"eggo">>, <<"raw">> >>),
           Loc("hdfs", <<>>, << <<"user">>, <<"eggo">>, <<"tmp">> >>))

\* only the root on the local disk
LocalRootOnly ==
    Layout(Loc("file", <<>>, << <<"data">> >>),
           Loc("s3n", Bucket, << <<"eggo">>, <<"raw">> >>),
           Loc("hdfs", <<>>, << <<"user">>, <<"eggo">>, <<"tmp">> >>))

\* everything but the root on the local disk
RemoteRootOnly ==
    Layout(Loc("s3n", Bucket, << <<"eggo">> >>),
           Loc("file", <<>>, << <<"data">>, <<"raw">> >>),
           Loc("file", <<>>, << <<"data">>, <<"tmp">> >>))

Layouts ==
    {NestedFiles, SeparateFiles, ObjectStore, Hdfs, LocalRootOnly, RemoteRootOnly}

ConfigOf(l) ==
    [root |-> UrlString(l.root), raw |-> UrlString(l.raw), tmp |-> UrlString(l.tmp)]

LayoutOf(d) == CHOOSE l \in Layouts : ConfigOf(l) = d

RootOf(l, kind) ==
    IF kind = "raw" THEN l.raw ELSE IF kind = "tmp" THEN l.tmp ELSE l.root

\* names of job configs: plain ones, and ones a config file may also hold
PlainNames == {<<"a">>, <<"b">>, <<"raw">>}
JobNames == PlainNames \cup {<<"..">>, <<"/", "data">>}

ConfigFile(name) == [readable |-> TRUE, name |-> name]
Unreadable == [readable |-> FALSE, name |-> <<>>]
NoConfig == [readable |-> FALSE, name |-> <<"-">>]
ConfigFiles == {ConfigFile(n) : n \in JobNames} \cup {Unreadable}

\* a directory with all the directories above it
Ancestors(dir) == {SubSeq(dir, 1, n) : n \in 0..Len(dir)}

\* what the jobs have written: job b all three namespaces, job a those of
\* `present`; every namespace holds one part
FileKinds(l) == {k \in Kinds : RootOf(l, k).scheme = "file"}

S3Kinds(l) == {k \in Kinds : RootOf(l, k).scheme = "s3n"}

\* the jobs that have data of a kind
JobsWith(k, present) == {n \in {<<"a">>, <<"b">>} : n = <<"b">> \/ k \in present}

DataDirs(l, present) ==
    UNION {Ancestors(RootOf(l, kn[1]).segs \o <<kn[2], <<"part">> >>) :
             kn \in {kn \in FileKinds(l) \X {<<"a">>, <<"b">>} :
                        kn[2] \in JobsWith(kn[1], present)}}

RootDirs(l) == UNION {Ancestors(RootOf(l, k).segs) : k \in FileKinds(l)}

DataKeys(l, present) ==
    {SlashJoin(RootOf(l, kn[1]).segs \o <<kn[2], <<"part">> >>) :
        kn \in {kn \in S3Kinds(l) \X {<<"a">>, <<"b">>} :
                   kn[2] \in JobsWith(kn[1], present)}}

StoreIdle ==
    /\ dfs = ConfigOf(SeparateFiles)
    /\ fs = {<<>>}
    /\ s3 = {}
    /\ denied = {}

DelIdle ==
    /\ lastOp = "none"
    /\ lastConfig = NoConfig
    /\ repeated = FALSE
    /\ preFs = {}
    /\ preS3 = {}
    /\ attempted = <<>>

DeleteInit ==
    /\ exec_ctx \in Contexts
    /\ err = NoError
    /\ HostsIdle
    /\ ProvIdle
    /\ ExecIdle
    /\ InstIdle
    /\ AuxIdle
    /\ \E l \in Layouts, present \in SUBSET Kinds :
          /\ dfs = ConfigOf(l)
          /\ fs = {<<>>} \cup RootDirs(l) \cup DataDirs(l, present)
          /\ s3 = DataKeys(l, present)
    /\ denied = {}
    /\ DelIdle

\* a fab task that ran to its end: its outcome and the ghosts about it
Task(op, config, r, att) ==
    /\ fs' = r.fs
    /\ s3' = r.s3
    /\ err' = r.err
    /\ lastOp' = op
    /\ lastConfig' = config
    /\ repeated' = (lastOp = op /\ lastConfig = config)
    /\ preFs' = fs
    /\ preS3' = s3
    /\ attempted' = att
    /\ UNCHANGED <<auxVars, exec_ctx, dfs, denied, hostVars, provVars, execVars, instVars>>

DeleteRaw ==
    \E c \in ConfigFiles :
        \E r \in {delete_raw(c, dfs, fs, s3)} :
            Task("delete_raw", c, r, <<"delete_raw">>)

DeleteTmp ==
    \E c \in ConfigFiles :
        \E r \in {delete_tmp(c, dfs, fs, s3)} :
            Task("delete_tmp", c, r, <<"delete_tmp">>)

DeleteToasted ==
    \E c \in ConfigFiles :
        \E r \in {delete_toasted(c, dfs, fs, s3)} :
            Task("delete_toasted", c, r, <<"delete_toasted">>)

DeleteAll ==
    \E c \in ConfigFiles :
        \E r \in {delete_all(c, dfs, fs, s3)} :
            Task("delete_all", c, r, r.attempted)

DeleteNext == DeleteRaw \/ DeleteTmp \/ DeleteToasted \/ DeleteAll

SpecDelete == DeleteInit /\ [][DeleteNext]_vars

(***************************************************************************)
(* provision() (lines 49-90) and list() (lines 301-307).                   *)
(***************************************************************************)
SystemExit == [type |-> "SystemExit", msg |-> <<>>]
EC2ResponseError == [type |-> "EC2ResponseError", msg |-> <<>>]

\* the calls that leave the calling host
NetworkCalls ==
    {"spark-ec2 launch", "director.provision", "connect_to_region",
     "get_only_instances", "add_tag"}

\* local('mkdir -p <path>'): the directory and those above it; the command
\* fails without an operand
mkdir_p(f, path) ==
    IF path = <<>> THEN [fs |-> f, err |-> SystemExit]
    ELSE [fs |-> f \cup Ancestors(Segments(path)), err |-> NoError]

\* as provision_dirs, creating the directory of the root only
provision_dirs_root_only(d, f) ==
    IF urlparse(d.root).scheme = <<"file">>
    THEN [fs |-> mkdir_p(f, urlparse(d.root).path).fs, err |-> NoError, made |-> 1]
    ELSE [fs |-> f, err |-> NoError, made |-> 0]

\* lines 73-80: when the root URL has the file scheme, mkdir -p of the paths
\* of the root, the raw and the tmp URL, in this order
provision_dirs(d, f) ==
    IF urlparse(d.root).scheme = <<"file">>
    THEN LET r1 == mkdir_p(f, urlparse(d.root).path)
             r2 == mkdir_p(r1.fs, urlparse(d.raw).path)
             r3 == mkdir_p(r2.fs, urlparse(d.tmp).path)
         IN  IF r1.err # NoError THEN [fs |-> r1.fs, err |-> r1.err, made |-> 1]
             ELSE IF r2.err # NoError THEN [fs |-> r2.fs, err |-> r2.err, made |-> 2]
             ELSE [fs |-> r3.fs, err |-> r3.err, made |-> 3]
    ELSE [fs |-> f, err |-> NoError, made |-> 0]

RECURSIVE Repeat(_, _)
Repeat(x, n) == IF n = 0 THEN <<>> ELSE <<x>> \o Repeat(x, n - 1)

\* lines 51-71: launch the cluster
P_Launch ==
    /\ ppc = "start"
    /\ listed = "no"
    /\ IF exec_ctx = "spark_ec2"
       THEN /\ calls' = Append(calls, "spark-ec2 launch")
            /\ IF launchFails
               THEN err' = SystemExit /\ ppc' = "raised"
               ELSE err' = err /\ ppc' = "dirs"
       ELSE IF exec_ctx = "director"
       THEN /\ calls' = Append(calls, "director.provision")
            /\ IF launchFails
               THEN err' = SystemExit /\ ppc' = "raised"
               ELSE err' = err /\ ppc' = "dirs"
       ELSE /\ calls' = calls
            /\ err' = err
            /\ ppc' = "dirs"
    /\ UNCHANGED <<auxVars, execVars, instVars, exec_ctx, hostVars, storeVars, delVars, instances, tagFaults,
                   launchFails, tags, todo, listed>>

\* lines 73-80: the local directories
P_Dirs ==
    /\ ppc = "dirs"
    /\ \E r \in {provision_dirs(dfs, fs)} :
          /\ fs' = r.fs
          /\ calls' = calls \o Repeat("mkdir", r.made)
          /\ err' = r.err
          /\ ppc' = IF r.err = NoError THEN "tag" ELSE "raised"
    /\ UNCHANGED <<auxVars, execVars, instVars, exec_ctx, hostVars, dfs, s3, denied, delVars, instances, tagFaults,
                   launchFails, tags, todo, listed>>

\* lines 83-86: connect and fetch the instances of the key pair
P_Connect ==
    /\ ppc = "tag"
    /\ IF exec_ctx \in {"spark_ec2", "director"}
       THEN /\ calls' = calls \o <<"connect_to_region", "get_only_instances">>
            /\ todo' = instances
            /\ ppc' = "tagging"
       ELSE /\ UNCHANGED <<auxVars, calls, todo>>
            /\ ppc' = "done"
    /\ UNCHANGED <<auxVars, execVars, instVars, exec_ctx, err, hostVars, storeVars, delVars, instances,
                   tagFaults, launchFails, tags, listed>>

\* lines 87-90: one round of the tagging loop; a request that fails raises
P_Tag ==
    /\ ppc = "tagging"
    /\ todo # <<>>
    /\ IF Head(todo) \in tagFaults
       THEN /\ calls' = Append(calls, "add_tag")
            /\ err' = EC2ResponseError
            /\ ppc' = "raised"
            /\ UNCHANGED <<auxVars, tags, todo>>
       ELSE /\ calls' = calls \o <<"add_tag", "add_tag">>
            /\ tags' = [tags EXCEPT ![Head(todo)] = {"owner", "stack_name"}]
            /\ todo' = Tail(todo)
            /\ UNCHANGED <<auxVars, err, ppc>>
    /\ UNCHANGED <<auxVars, execVars, instVars, exec_ctx, hostVars, storeVars, delVars, instances,
                   tagFaults, launchFails, listed>>

\* the loop is over: provision() returns
P_Return ==
    /\ ppc = "tagging"
    /\ todo = <<>>
    /\ ppc' = "done"
    /\ UNCHANGED <<auxVars, execVars, instVars, exec_ctx, err, hostVars, storeVars, delVars, calls, instances,
                   tagFaults, launchFails, tags, todo, listed>>

\* as list_task, returning an empty listing where listing is not implemented
list_task_empty(ctx) == [listed |-> "returned", err |-> NoError]

\* list() (lines 301-307): director lists its clusters, any other context
\* raises
list_task(ctx) ==
    IF ctx = "director" THEN [listed |-> "returned", err |-> NoError]
    ELSE [listed |-> "raised", err |-> NotImplementedError(ctx)]

List ==
    /\ ppc = "start"
    /\ listed = "no"
    /\ \E r \in {list_task(exec_ctx)} :
          /\ listed' = r.listed
          /\ err' = r.err
    /\ UNCHANGED <<auxVars, execVars, instVars, exec_ctx, hostVars, storeVars, delVars, ppc, calls, instances,
                   tagFaults, launchFails, tags, todo>>

BackendNext == P_Launch \/ P_Dirs \/ P_Connect \/ P_Tag \/ P_Return \/ List

BackendInit ==
    /\ exec_ctx \in AllContexts
    /\ err = NoError
    /\ HostsIdle
    /\ ExecIdle
    /\ InstIdle
    /\ AuxIdle
    /\ \E l \in Layouts, present \in SUBSET Kinds :
          /\ dfs = ConfigOf(l)
          /\ fs = {<<>>} \cup DataDirs(l, present)
          /\ s3 = {}
    /\ denied = {}
    /\ lastOp = "none"
    /\ lastConfig = NoConfig
    /\ repeated = FALSE
    /\ preFs = fs
    /\ preS3 = {}
    /\ attempted = <<>>
    /\ ppc = "start"
    /\ calls = <<>>
    /\ instances \in DistinctSeqs(InstanceIds, MaxInstances)
    /\ tagFaults \in SUBSET Range(instances)
    /\ launchFails \in BOOLEAN
    /\ tags = [i \in InstanceIds |-> {}]
    /\ todo = <<>>
    /\ listed = "no"

SpecBackend == BackendInit /\ [][BackendNext]_vars

UrlDir(kind) == RootOf(LayoutOf(dfs), kind).segs

NoNetworkCall == \A i \in DOMAIN calls : calls[i] \notin NetworkCalls

\* C9 as stated: under local, provision() issues no launch, network or
\* tagging call, and the directory of each of the three URLs exists
\* afterwards exactly when that URL has the file scheme.
C9_EachDirectoryByItsOwnScheme ==
    (exec_ctx = "local" /\ ppc = "done") =>
        /\ NoNetworkCall
        /\ \A k \in Kinds :
              UrlDir(k) \in fs <=> RootOf(LayoutOf(dfs), k).scheme = "file"

\* C9, amended: under local, provision() issues no launch, network or
\* tagging call; when dfs_root_url has the file scheme it creates the
\* directories named by the paths of all three URLs, whatever the schemes of
\* the raw and tmp URLs, and when dfs_root_url has another scheme it creates
\* no directory.
C9_DirectoriesByRootScheme ==
    (exec_ctx = "local" /\ ppc = "done") =>
        /\ NoNetworkCall
        /\ err = NoError
        /\ IF LayoutOf(dfs).root.scheme = "file"
           THEN fs = preFs \cup UNION {Ancestors(UrlDir(k)) : k \in Kinds}
           ELSE fs = preFs

\* under local, with only the root on the local disk, provision() has made
\* a local directory of the object-store URL's path
C9_Witness ==
    /\ exec_ctx = "local"
    /\ ppc = "done"
    /\ dfs = ConfigOf(LocalRootOnly)
    /\ << <<"eggo">>, <<"raw">> >> \in fs \ preFs
    /\ << <<"data">> >> \in fs
    /\ calls = <<"mkdir", "mkdir", "mkdir">>

\* C10: tagging is best-effort: once the cluster is launched provision()
\* completes also when tagging an instance fails, and every other instance
\* is tagged.
C10_TaggingBestEffort ==
    (exec_ctx \in {"spark_ec2", "director"} /\ ppc \in {"done", "raised"}
        /\ ~launchFails) =>
        /\ ppc = "done"
        /\ \A i \in Range(instances) \ tagFaults : tags[i] = {"owner", "stack_name"}

(***************************************************************************)
(* The multi-host tasks deploy_config (lines 136-155), setup_slaves (lines *)
(* 281-298) and update_eggo (lines 430-443): each hands its inner do() and *)
(* a host list to fabric's execute().  execute() decides between serial    *)
(* and parallel execution from env.parallel when it starts.  Serially it   *)
(* runs the hosts in order and a failing command aborts the process at     *)
(* once (no warn_only is set); in parallel every host's job is run and the *)
(* process aborts, once all jobs have ended, if one of them failed.        *)
(***************************************************************************)
MultiHostTasks == {"deploy_config", "setup_slaves", "update_eggo"}

\* the tasks whose do() sets env.parallel = True (lines 290, 438)
SetsParallel(task) == task \in {"setup_slaves", "update_eggo"}

\* setup_slaves calls execute() under director and spark_ec2 only (line 297)
Executes(task, ctx) == task = "setup_slaves" => ctx \in {"director", "spark_ec2"}

X_Start ==
    /\ xpc = "start"
    /\ IF Executes(xop, exec_ctx)
       THEN /\ mode' = IF envParallel THEN "parallel" ELSE "serial"
            /\ xpc' = "running"
       ELSE /\ mode' = mode
            /\ xpc' = "done"
    /\ UNCHANGED <<auxVars, exec_ctx, err, hostVars, storeVars, delVars, provVars, instVars,
                   xop, envParallel, xhosts, failing, results, next>>

\* serial: the next host of the list; a failure aborts
X_SerialRun ==
    /\ xpc = "running"
    /\ mode = "serial"
    /\ next <= Len(xhosts)
    /\ envParallel' = (envParallel \/ SetsParallel(xop))
    /\ IF xhosts[next] \in failing
       THEN /\ results' = [results EXCEPT ![xhosts[next]] = "failed"]
            /\ err' = SystemExit
            /\ xpc' = "aborted"
            /\ next' = next
       ELSE /\ results' = [results EXCEPT ![xhosts[next]] = "ok"]
            /\ next' = next + 1
            /\ UNCHANGED <<auxVars, err, xpc>>
    /\ UNCHANGED <<auxVars, exec_ctx, hostVars, storeVars, delVars, provVars, instVars,
                   xop, mode, xhosts, failing>>

X_SerialDone ==
    /\ xpc = "running"
    /\ mode = "serial"
    /\ next > Len(xhosts)
    /\ xpc' = "done"
    /\ UNCHANGED <<auxVars, exec_ctx, err, hostVars, storeVars, delVars, provVars, instVars,
                   xop, envParallel, mode, xhosts, failing, results, next>>

\* parallel: the job of some host ends, in any order
X_ParallelRun ==
    /\ xpc = "running"
    /\ mode = "parallel"
    /\ \E h \in Range(xhosts) :
          /\ results[h] = "none"
          /\ results' = [results EXCEPT ![h] = IF h \in failing THEN "failed" ELSE "ok"]
    /\ UNCHANGED <<auxVars, exec_ctx, err, hostVars, storeVars, delVars, provVars, instVars,
                   xop, envParallel, mode, xhosts, failing, next, xpc>>

\* parallel: all jobs have ended; abort if one failed
X_ParallelJoin ==
    /\ xpc = "running"
    /\ mode = "parallel"
    /\ \A h \in Range(xhosts) : results[h] # "none"
    /\ IF \E h \in Range(xhosts) : results[h] = "failed"
       THEN err' = SystemExit /\ xpc' = "aborted"
       ELSE err' = err /\ xpc' = "done"
    /\ UNCHANGED <<auxVars, exec_ctx, hostVars, storeVars, delVars, provVars, instVars,
                   xop, envParallel, mode, xhosts, failing, results, next>>

ExecNext ==
    X_Start \/ X_SerialRun \/ X_SerialDone \/ X_ParallelRun \/ X_ParallelJoin

ExecInit ==
    /\ exec_ctx \in Contexts
    /\ err = NoError
    /\ HostsIdle
    /\ StoreIdle
    /\ DelIdle
    /\ ProvIdle
    /\ InstIdle
    /\ AuxIdle
    /\ xop \in MultiHostTasks
    /\ envParallel \in BOOLEAN
    /\ mode = "none"
    /\ xhosts \in DistinctSeqs(Hosts, MaxExecHosts)
    /\ failing \in SUBSET Range(xhosts)
    /\ results = [h \in Hosts |-> "none"]
    /\ next = 1
    /\ xpc = "start"

SpecExec == ExecInit /\ [][ExecNext]_vars

\* C6: when a multi-host task fails on exactly one of its hosts, it is still
\* executed on every other host: the operation does not abort before the
\* result of every host has been collected, serially or in parallel.
C6_OneFailureOthersStillRun ==
    (xpc \in {"done", "aborted"} /\ Executes(xop, exec_ctx)
        /\ Cardinality(failing) = 1) =>
        \A h \in Range(xhosts) : results[h] # "none"

(***************************************************************************)
(* install_adam (lines 194-221) and install_eggo (lines 224-234) on one    *)
(* host.  Both test exists(home); only when the home directory is absent   *)
(* they clone the fork and, for a branch other than master, check out      *)
(* origin/<branch>; then they build (adam) or install (eggo) what is in    *)
(* the home directory.  A remote command that fails aborts the run.        *)
(***************************************************************************)
Branches == {"master", "dev", "old"}

\* the branch a fresh clone has checked out
DefaultBranch == "master"

\* where the function goes after exists(home) (lines 203, 225)
AfterExists(present) == IF present THEN "build" ELSE "mkdir"

\* where the function goes after git clone (lines 208, 230)
AfterClone(b) == IF b # "master" THEN "checkout" ELSE "build"

BuildCommand(which) == IF which = "adam" THEN "mvn package" ELSE "setup.py install"

\* lines 196-201: download and unpack maven (install_adam only)
I_Maven ==
    /\ ipc = "start"
    /\ installing = "adam"
    /\ cmds' = cmds \o <<"mkdir -p", "wget", "tar">>
    /\ ipc' = "exists"
    /\ UNCHANGED <<auxVars, fresh, exec_ctx, err, hostVars, storeVars, delVars, provVars, execVars,
                   installing, branch, repoAt, built, found, faults, runs>>

\* lines 203, 225: exists(home)
I_Exists ==
    /\ \/ ipc = "exists"
       \/ ipc = "start" /\ installing = "eggo"
    /\ found' = IF repoAt # "absent" THEN "present" ELSE "absent"
    /\ ipc' = AfterExists(repoAt # "absent")
    /\ UNCHANGED <<auxVars, fresh, exec_ctx, err, hostVars, storeVars, delVars, provVars, execVars,
                   installing, branch, repoAt, built, cmds, faults, runs>>

\* lines 204-205, 226-227: mkdir -p of the parent directory
I_Mkdir ==
    /\ ipc = "mkdir"
    /\ cmds' = Append(cmds, "mkdir -p")
    /\ ipc' = "clone"
    /\ UNCHANGED <<auxVars, fresh, exec_ctx, err, hostVars, storeVars, delVars, provVars, execVars,
                   installing, branch, repoAt, built, found, faults, runs>>

\* lines 207, 229: git clone
I_Clone ==
    /\ ipc = "clone"
    /\ cmds' = Append(cmds, "git clone")
    /\ repoAt' = DefaultBranch
    /\ ipc' = AfterClone(branch)
    /\ UNCHANGED <<auxVars, fresh, exec_ctx, err, hostVars, storeVars, delVars, provVars, execVars,
                   installing, branch, built, found, faults, runs>>

\* lines 208-210, 230-232: git checkout origin/<branch>
I_Checkout ==
    /\ ipc = "checkout"
    /\ cmds' = Append(cmds, "git checkout")
    /\ repoAt' = branch
    /\ ipc' = "build"
    /\ UNCHANGED <<auxVars, fresh, exec_ctx, err, hostVars, storeVars, delVars, provVars, execVars,
                   installing, branch, built, found, faults, runs>>

\* lines 219-221, 233-234: build or install what is checked out
I_Build ==
    /\ ipc = "build"
    /\ cmds' = Append(cmds, BuildCommand(installing))
    /\ built' = repoAt
    /\ ipc' = "done"
    /\ UNCHANGED <<auxVars, fresh, exec_ctx, err, hostVars, storeVars, delVars, provVars, execVars,
                   installing, branch, repoAt, found, faults, runs>>

\* the remote command the function is about to issue fails: fabric aborts
I_Fail ==
    /\ \/ ipc \in {"mkdir", "clone", "checkout", "build"}
       \/ ipc = "start" /\ installing = "adam"
    /\ faults < MaxFaults
    /\ faults' = faults + 1
    /\ err' = SystemExit
    /\ ipc' = "raised"
    /\ UNCHANGED <<auxVars, fresh, exec_ctx, hostVars, storeVars, delVars, provVars, execVars,
                   installing, branch, repoAt, built, cmds, found, runs>>

\* the task is started again
I_Rerun ==
    /\ ipc \in {"done", "raised"}
    /\ runs < MaxRuns
    /\ runs' = runs + 1
    /\ ipc' = "start"
    /\ cmds' = <<>>
    /\ found' = "unknown"
    /\ err' = NoError
    /\ UNCHANGED <<auxVars, fresh, exec_ctx, hostVars, storeVars, delVars, provVars, execVars,
                   installing, branch, repoAt, built, faults>>

InstallNext ==
    \/ I_Maven
    \/ I_Exists
    \/ I_Mkdir
    \/ I_Clone
    \/ I_Checkout
    \/ I_Build
    \/ I_Fail
    \/ I_Rerun

InstallInit ==
    /\ exec_ctx \in Contexts
    /\ err = NoError
    /\ HostsIdle
    /\ StoreIdle
    /\ DelIdle
    /\ ProvIdle
    /\ ExecIdle
    /\ AuxIdle
    /\ installing \in {"adam", "eggo"}
    /\ branch \in Branches
    /\ repoAt \in Branches \cup {"absent"}
    /\ built = "none"
    /\ ipc = "start"
    /\ cmds = <<>>
    /\ found = "unknown"
    /\ faults = 0
    /\ runs = 1
    /\ fresh = (repoAt = "absent")

SpecInstall == InstallInit /\ [][InstallNext]_vars

\* C7: whatever the target directory holds beforehand (nothing, or the
\* repository at any branch), after the install step the repository is
\* checked out at the requested branch; a run that finds the target present
\* does not clone but does check the branch out.
C7_InstallLeavesRequestedBranch ==
    ipc = "done" =>
        /\ repoAt = branch
        /\ found = "present" =>
              /\ "git clone" \notin Range(cmds)
              /\ "git checkout" \in Range(cmds)

\* the second run of the install function has ended without a failed
\* command, after a first run in which a command failed
ResumedRunDone ==
    /\ ipc = "done"
    /\ runs = 2
    /\ faults = 1
    /\ err = NoError

\* C14: on a host where the repository was absent, a second run without
\* failures after a first run that failed at any step (between git clone and
\* git checkout included) ends as a failure-free first run does: with the
\* requested branch checked out and built or installed.
C14_RerunResumes ==
    (fresh /\ ResumedRunDone) => (repoAt = branch /\ built = branch)

(***************************************************************************)
(* What the environment knows about the last task, independently of the    *)
(* strings the task computed.                                              *)
(***************************************************************************)
SingleDeletes == {"delete_raw", "delete_tmp", "delete_toasted"}

KindOf(op) ==
    IF op = "delete_raw" THEN "raw" ELSE IF op = "delete_tmp" THEN "tmp" ELSE "toasted"

\* the configured root the last task's namespace lies under
LastRoot == RootOf(LayoutOf(dfs), KindOf(lastOp))

\* the directory of a job's namespace of a kind
NamespaceDir(kind, name) == RootOf(LayoutOf(dfs), kind).segs \o <<name>>

\* the keys of a job's namespace of a kind
NamespaceKeys(keys, kind, name) ==
    {k \in keys : StartsWith(k, SlashJoin(NamespaceDir(kind, name)))}

NamespaceExists(f, keys, kind, name) ==
    IF RootOf(LayoutOf(dfs), kind).scheme = "file"
    THEN NamespaceDir(kind, name) \in f
    ELSE NamespaceKeys(keys, kind, name) # {}

PlainDelete ==
    /\ lastOp \in SingleDeletes
    /\ lastConfig.readable
    /\ lastConfig.name \in PlainNames

\* C2: delete_all always attempts delete_tmp, delete_raw and delete_toasted,
\* whichever of them fails, and the failure is caught, not propagated.
C2_DeleteAllAttemptsAll ==
    (lastOp = "delete_all" /\ lastConfig.readable /\ lastConfig.name \in PlainNames) =>
        /\ attempted = <<"delete_tmp", "delete_raw", "delete_toasted">>
        /\ err = NoError

\* C3: on a file-scheme or object-store URL a delete task that is called a
\* second time in a row with the same config, or on a namespace that does
\* not exist, raises no error; and after a delete task the namespace does
\* not exist.
C3_DeleteIdempotent ==
    (PlainDelete /\ LastRoot.scheme \in {"file", "s3n"}) =>
        /\ (repeated \/ ~NamespaceExists(preFs, preS3, KindOf(lastOp), lastConfig.name))
              => err = NoError
        /\ ~NamespaceExists(fs, s3, KindOf(lastOp), lastConfig.name)

\* C4: with a file-scheme root and a plain single-segment name, delete_raw
\* removes the directory <raw root>/<name> with what is below it and leaves
\* every other path as it was, the object store included; the directories
\* <tmp root>/<name> and <root>/<name> of the same job and <raw root>/<other>
\* of every other job stay.  delete_tmp and delete_toasted do the same with
\* <tmp root>/<name> and <root>/<name>.
C4_DeleteRemovesOnlyItsDirectory ==
    (PlainDelete /\ LastRoot.scheme = "file"
                 /\ NamespaceDir(KindOf(lastOp), lastConfig.name) \in preFs) =>
        LET target == NamespaceDir(KindOf(lastOp), lastConfig.name)
            l == LayoutOf(dfs)
        IN  /\ err = NoError
            /\ fs = {d \in preFs : ~IsPrefix(target, d)}
            /\ s3 = preS3
            /\ lastOp = "delete_raw" =>
                  \A kn \in {"raw", "tmp", "toasted"} \X PlainNames :
                      ( /\ RootOf(l, kn[1]).scheme = "file"
                        /\ kn # <<"raw", lastConfig.name>>
                        /\ kn[1] = "raw" \/ kn[2] = lastConfig.name
                        /\ NamespaceDir(kn[1], kn[2]) \in preFs )
                      => NamespaceDir(kn[1], kn[2]) \in fs

\* delete_raw of job a removed its raw data while job a's other data and job
\* b's raw data were there
C4_Witness ==
    /\ lastOp = "delete_raw"
    /\ lastConfig = ConfigFile(<<"a">>)
    /\ dfs = ConfigOf(NestedFiles)
    /\ err = NoError
    /\ << <<"data">>, <<"raw">>, <<"a">>, <<"part">> >> \in preFs \ fs
    /\ << <<"data">>, <<"tmp">>, <<"a">>, <<"part">> >> \in fs
    /\ << <<"data">>, <<"a">>, <<"part">> >> \in fs
    /\ << <<"data">>, <<"raw">>, <<"b">>, <<"part">> >> \in fs

\* the derived URL has a scheme the dispatch does not know: the root's scheme
\* is neither file nor s3n, or the name starts with "/" and replaces the root
UnknownScheme ==
    \/ LastRoot.scheme \notin {"file", "s3n"}
    \/ StartsWith(lastConfig.name, <<"/">>)

\* C5: when the derived URL's scheme is not one the dispatch knows, each of
\* delete_raw, delete_tmp and delete_toasted raises an error and deletes
\* nothing; it never returns normally.
C5_UnknownSchemeRaises ==
    (lastOp \in SingleDeletes /\ lastConfig.readable /\ UnknownScheme) =>
        /\ err.type = "NotImplementedError"
        /\ fs = preFs
        /\ s3 = preS3

\* delete_tmp on an hdfs root raised while there was data on the local disk
C5_Witness ==
    /\ lastOp = "delete_tmp"
    /\ lastConfig = ConfigFile(<<"a">>)
    /\ dfs = ConfigOf(LocalRootOnly)
    /\ err = SchemeNotSupported(<<"hdfs">>)
    /\ << <<"data">>, <<"a">>, <<"part">> >> \in fs

\* C12: on a distributed-filesystem (hdfs) URL, delete_raw / delete_tmp /
\* delete_toasted remove the path and return without an error, whether the
\* path exists or not.
C12_HdfsDeleteSucceeds ==
    (PlainDelete /\ LastRoot.scheme = "hdfs") => err = NoError

\* C18: whatever the name in the job config ("..", a name with "/" or with a
\* leading "/", ...), a delete task on a file-scheme root removes only paths
\* strictly below that configured root: never the root, a directory above
\* it or a path outside it.
C18_DeleteStaysBelowRoot ==
    (lastOp \in SingleDeletes /\ lastConfig.readable /\ LastRoot.scheme = "file") =>
        \A d \in preFs \ fs : IsPrefix(LastRoot.segs, d) /\ d # LastRoot.segs

(***************************************************************************)
(* The delete tasks on an object store that holds more keys than a page    *)
(* and that may refuse to delete one of them.                              *)
(***************************************************************************)
S3Layouts == {l \in Layouts : S3Kinds(l) # {}}

Parts == {<<"part">>, <<"part2">>, <<"part3">>}

\* job a has written one part into every namespace, job b three
ManyKeys(l) ==
    {SlashJoin(RootOf(l, knp[1]).segs \o <<knp[2], knp[3]>>) :
        knp \in {knp \in S3Kinds(l) \X {<<"a">>, <<"b">>} \X Parts :
                    knp[2] = <<"b">> \/ knp[3] = <<"part">>}}

S3Init ==
    /\ exec_ctx = "spark_ec2"
    /\ err = NoError
    /\ HostsIdle
    /\ ProvIdle
    /\ ExecIdle
    /\ InstIdle
    /\ AuxIdle
    /\ \E l \in S3Layouts :
          /\ dfs = ConfigOf(l)
          /\ fs = {<<>>} \cup RootDirs(l)
          /\ s3 = ManyKeys(l)
    /\ denied \in {{}} \cup {{k} : k \in s3}
    /\ DelIdle

SpecS3 == S3Init /\ [][DeleteNext]_vars

\* the last task was a single delete of a plain name on an object-store root
\* and returned without an error
S3DeleteReturned ==
    /\ PlainDelete
    /\ LastRoot.scheme = "s3n"
    /\ err = NoError

\* C11: after delete_raw / delete_tmp / delete_toasted has returned on an
\* object-store URL, the store having refused no key, no key under the
\* namespace prefix is left, however many pages the listing of the prefix had.
C11_AllPagesDeleted ==
    (S3DeleteReturned /\ NamespaceKeys(preS3, KindOf(lastOp), lastConfig.name) \cap denied = {}) =>
        /\ NamespaceKeys(s3, KindOf(lastOp), lastConfig.name) = {}
        /\ bucket_list(s3, SlashJoin(NamespaceDir(KindOf(lastOp), lastConfig.name))) = {}

\* delete_raw of job b returned after its prefix had listed more keys than a page
C11_Witness ==
    /\ S3DeleteReturned
    /\ lastOp = "delete_raw"
    /\ lastConfig = ConfigFile(<<"b">>)
    /\ denied = {}
    /\ Cardinality(NamespaceKeys(preS3, "raw", <<"b">>)) > PageSize
    /\ NamespaceKeys(s3, "raw", <<"b">>) = {}
    /\ NamespaceKeys(s3, "raw", <<"a">>) # {}

\* C13: an object-store delete task never returns normally while a key
\* under its prefix is left: either every key was deleted, or the caller sees
\* an error.
C13_S3DeleteAllOrNothing ==
    S3DeleteReturned => NamespaceKeys(s3, KindOf(lastOp), lastConfig.name) = {}

(***************************************************************************)
(* toast(config) (lines 334-363): the master is resolved, then execute()   *)
(* runs do() on the hosts it was given: do() reads the job config on the   *)
(* calling host, pushes the config file and runs the job-DAG runner.       *)
(***************************************************************************)
ToastConfigs == {"valid", "unreadable", "not_json", "no_dag"}

ValueError == [type |-> "ValueError", msg |-> <<>>]
KeyError == [type |-> "KeyError", msg |-> <<"dag">>]
ImportError == [type |-> "ImportError", msg |-> <<"build_dest_filename">>]

\* lines 337-339: open(config), json.load(ip), config_data['dag']
read_dag(config) ==
    IF config = "unreadable" THEN IOError
    ELSE IF config = "not_json" THEN ValueError
    ELSE IF config = "no_dag" THEN KeyError
    ELSE NoError

\* as ToastHosts, with the hosts deploy_config uses
ToastHostsWorkers(master, slaves) == WorkerList(master, slaves)

\* line 363: hosts=get_master_host()
ToastHosts(master, slaves) == <<master>>

\* the calling host
Client == "client"

Event(what, host) == [what |-> what, host |-> host]

\* line 363: the argument of execute() is evaluated
T_Start ==
    /\ tpc = "start"
    /\ IF exec_ctx \in Contexts
       THEN /\ thosts' = ToastHosts(get_master_host(exec_ctx, clusterMaster),
                                    clusterSlaves)
            /\ tlog' = IF exec_ctx = "spark_ec2"
                       THEN Append(tlog, Event("local", Client))
                       ELSE tlog
            /\ tpc' = "parse"
            /\ err' = err
       ELSE /\ err' = NotImplementedError(exec_ctx)
            /\ tpc' = "raised"
            /\ UNCHANGED <<thosts, tlog>>
    /\ UNCHANGED <<setupVars, exec_ctx, hostVars, storeVars, delVars, provVars, execVars,
                   instVars, sudoVars, tmpVars, tconfig, tfail, ti>>

\* lines 337-339: the config is read and its dag field taken
T_Parse ==
    /\ tpc = "parse"
    /\ tlog' = Append(tlog, Event("parse", Client))
    /\ err' = read_dag(tconfig)
    /\ tpc' = IF read_dag(tconfig) = NoError THEN "name" ELSE "raised"
    /\ UNCHANGED <<setupVars, exec_ctx, hostVars, storeVars, delVars, provVars, execVars,
                   instVars, sudoVars, tmpVars, tconfig, tfail, thosts, ti>>

\* lines 341-343: the remote path, from build_dest_filename(config); the
\* function is imported from eggo.util, which does not define it: the call
\* gives a file name or an error
T_Name ==
    /\ tpc = "name"
    /\ err' = IF tfail = "name" THEN ImportError ELSE err
    /\ tpc' = IF tfail = "name" THEN "raised" ELSE "put"
    /\ UNCHANGED <<setupVars, exec_ctx, hostVars, storeVars, delVars, provVars, execVars,
                   instVars, sudoVars, tmpVars, tconfig, tfail, thosts, ti, tlog>>

\* lines 344-345: put(local_path=config, remote_path=...)
T_Put ==
    /\ tpc = "put"
    /\ tlog' = Append(tlog, Event("put", thosts[ti]))
    /\ err' = IF tfail = "put" THEN SystemExit ELSE err
    /\ tpc' = IF tfail = "put" THEN "raised" ELSE "run"
    /\ UNCHANGED <<setupVars, exec_ctx, hostVars, storeVars, delVars, provVars, execVars,
                   instVars, sudoVars, tmpVars, tconfig, tfail, thosts, ti>>

\* lines 347-361: run(toast_cmd) with the runner's environment
T_Run ==
    /\ tpc = "run"
    /\ tlog' = Append(tlog, Event("run", thosts[ti]))
    /\ err' = IF tfail = "run" THEN SystemExit ELSE err
    /\ tpc' = IF tfail = "run" THEN "raised" ELSE "next"
    /\ UNCHANGED <<setupVars, exec_ctx, hostVars, storeVars, delVars, provVars, execVars,
                   instVars, sudoVars, tmpVars, tconfig, tfail, thosts, ti>>

\* execute(): do() has returned on a host; the next host, or the end
T_Next ==
    /\ tpc = "next"
    /\ ti' = IF ti < Len(thosts) THEN ti + 1 ELSE ti
    /\ tpc' = IF ti < Len(thosts) THEN "parse" ELSE "done"
    /\ UNCHANGED <<setupVars, exec_ctx, err, hostVars, storeVars, delVars, provVars, execVars,
                   instVars, sudoVars, tmpVars, tconfig, tfail, thosts, tlog>>

ToastNext == T_Start \/ T_Parse \/ T_Name \/ T_Put \/ T_Run \/ T_Next

ToastInit ==
    /\ SetupIdle
    /\ exec_ctx \in AllContexts
    /\ err = NoError
    /\ clusterMaster \in Hosts
    /\ clusterSlaves \in DistinctSeqs(Hosts \ {clusterMaster}, MaxSlaves)
    /\ exec_ctx = "local" => clusterSlaves = <<>>
    /\ hpc = "start"
    /\ masterRet = NoHost
    /\ slaveMaster = NoHost
    /\ hosts = <<>>
    /\ asked = NoHost
    /\ reported = <<>>
    /\ workers = <<>>
    /\ changes = 0
    /\ second = FALSE
    /\ stable = TRUE
    /\ observed = NoHost
    /\ StoreIdle
    /\ DelIdle
    /\ ProvIdle
    /\ ExecIdle
    /\ InstIdle
    /\ SudoIdle
    /\ TmpIdle
    /\ tconfig \in ToastConfigs
    /\ tfail \in {"none", "name", "put", "run"}
    /\ thosts = <<>>
    /\ ti = 1
    /\ tpc = "start"
    /\ tlog = <<>>

SpecToast == ToastInit /\ [][ToastNext]_vars

\* the host toast is to act on
ToastMaster == IF exec_ctx = "local" THEN "localhost" ELSE clusterMaster

\* what do() does, the master query of spark_ec2 left out
IsDoStep(e) == e.what # "local"

\* C15: toast reads the config (and its dag field) before it pushes
\* anything, pushes the config file to the master before it invokes the
\* runner there, pushes and runs nothing when the config does not parse or
\* has no dag, and sends nothing to a host other than the master: no slave
\* receives a transfer or a command.
C15_ToastValidatePushRunOnMaster ==
    /\ IsPrefix(SelectSeq(tlog, IsDoStep),
                  <<Event("parse", Client), Event("put", ToastMaster),
                    Event("run", ToastMaster)>>)
    /\ \A i \in DOMAIN tlog :
          /\ tlog[i].host \notin Range(clusterSlaves)
          /\ tlog[i].what \in {"put", "run"} => tconfig = "valid"
    /\ tpc = "done" => Len(SelectSeq(tlog, IsDoStep)) = 3

\* toast ran to its end on a spark_ec2 cluster with two slaves
C15_Witness ==
    /\ tpc = "done"
    /\ exec_ctx = "spark_ec2"
    /\ Len(clusterSlaves) = 2
    /\ tlog = <<Event("local", Client), Event("parse", Client),
                Event("put", clusterMaster), Event("run", clusterMaster)>>

(***************************************************************************)
(* sudo(command, **kwargs) (lines 158-167).                                *)
(***************************************************************************)
MaxSudoCalls == 2

Commands == {"pip install", "hadoop fs -mkdir"}

\* the keyword arguments a call passes: none, or the user to run as
KwargsValues == {<<>>, <<"user", "hdfs">>, <<"user", "root">>}

ValueErrorCtx(ctx) == [type |-> "ValueError", msg |-> NotSupportedMsg(ctx)]

\* how the command is executed: fabric's sudo, run or local; or the error
sudo(ctx, command, kwargs) ==
    IF ctx = "director" \/ kwargs # <<>>
    THEN [how |-> "fabric_sudo", command |-> command, kwargs |-> kwargs, err |-> NoError]
    ELSE IF ctx = "spark_ec2"
    THEN [how |-> "run", command |-> command, kwargs |-> <<>>, err |-> NoError]
    ELSE IF ctx = "local"
    THEN [how |-> "local", command |-> command, kwargs |-> <<>>, err |-> NoError]
    ELSE [how |-> "none", command |-> command, kwargs |-> <<>>, err |-> ValueErrorCtx(ctx)]

SudoCall ==
    /\ Len(sudoCalls) < MaxSudoCalls
    /\ \E command \in Commands, kwargs \in KwargsValues :
          \E r \in {sudo(exec_ctx, command, kwargs)} :
              /\ sudoCalls' = Append(sudoCalls, [args |-> kwargs, did |-> r])
              /\ err' = r.err
    /\ UNCHANGED <<setupVars, exec_ctx, hostVars, storeVars, delVars, provVars, execVars,
                   instVars, toastVars, tmpVars>>

SudoInit ==
    /\ SetupIdle
    /\ exec_ctx \in AllContexts
    /\ err = NoError
    /\ HostsIdle
    /\ StoreIdle
    /\ DelIdle
    /\ ProvIdle
    /\ ExecIdle
    /\ InstIdle
    /\ ToastIdle
    /\ TmpIdle
    /\ sudoCalls = <<>>

SpecSudo == SudoInit /\ [][SudoCall]_vars

\* the mechanism each context is to use
StrategyOf(ctx) ==
    IF ctx = "director" THEN "fabric_sudo"
    ELSE IF ctx = "spark_ec2" THEN "run"
    ELSE "local"

\* C16: how a sudo step is executed depends on the execution context alone:
\* privilege elevation under director, a plain remote run under spark_ec2,
\* a local command under local, whatever keyword arguments the call passes.
C16_SudoStrategyByContextAlone ==
    exec_ctx \in Contexts =>
        \A i \in DOMAIN sudoCalls : sudoCalls[i].did.how = StrategyOf(exec_ctx)

(***************************************************************************)
(* util.make_local_tmp (lines 69-75) and util.make_hdfs_tmp (lines 78-88): *)
(* context managers around a temporary directory.  A directory is the      *)
(* string of its path; tmpdirs holds the directories and files that exist, *)
(* on the local disk for make_local_tmp and in HDFS for make_hdfs_tmp.     *)
(***************************************************************************)
CalledProcessError == [type |-> "CalledProcessError", msg |-> <<>>]
BodyError == [type |-> "Exception", msg |-> <<"body">>]

TmpParents == {<<"/", "tmp">>, <<"/", "scratch">>}
TmpPrefixes == {<<"tmp_eggo">>, <<"job">>}
UniqueParts == {"u1", "u2"}

\* mkdtemp(prefix=prefix, dir=dir): the prefix followed by a unique part
mkdtemp_name(prefix, dir, u) == os_path_join(dir, prefix \o <<u>>)

\* line 80: pjoin(dir, '_'.join([prefix, uuid()]))
hdfs_tmp_name(prefix, dir, u) == os_path_join(dir, prefix \o <<"_", u>>)

\* lines 82-84: the permissions are set when they are not the default
AfterMkdir(kind, permissions) ==
    IF kind = "hdfs" /\ permissions # "755" THEN "chmod" ELSE "body"

\* lines 71, 80-81: the directory is created
M_Create ==
    /\ mpc = "start"
    /\ \E prefix \in TmpPrefixes, dir \in TmpParents, u \in UniqueParts :
          \E name \in {IF mkind = "local" THEN mkdtemp_name(prefix, dir, u)
                       ELSE hdfs_tmp_name(prefix, dir, u)} :
              IF mfail = "mkdir"
              THEN /\ err' = IF mkind = "local" THEN OSError ELSE CalledProcessError
                   /\ mpc' = "left"
                   /\ UNCHANGED <<mname, tmpdirs>>
              ELSE /\ tmpdirs' = tmpdirs \cup {name}
                   /\ mname' = name
                   /\ mpc' = AfterMkdir(mkind, mperm)
                   /\ err' = err
    /\ UNCHANGED <<setupVars, exec_ctx, hostVars, storeVars, delVars, provVars, execVars,
                   instVars, toastVars, sudoVars, mkind, mperm, mbody, mfail>>

\* lines 82-84: hadoop fs -chmod -R, before the try statement is entered
M_Chmod ==
    /\ mpc = "chmod"
    /\ err' = IF mfail = "chmod" THEN CalledProcessError ELSE err
    /\ mpc' = IF mfail = "chmod" THEN "left" ELSE "body"
    /\ UNCHANGED <<setupVars, exec_ctx, hostVars, storeVars, delVars, provVars, execVars,
                   instVars, toastVars, sudoVars, mkind, mperm, mname, mbody,
                   mfail, tmpdirs>>

\* lines 73, 86: yield tmpdir; the body of the with statement writes into
\* the directory and returns or raises
M_Body ==
    /\ mpc = "body"
    /\ tmpdirs' = tmpdirs \cup {mname \o <<"/", "f">>}
    /\ err' = IF mbody = "raises" THEN BodyError ELSE err
    /\ mpc' = "finally"
    /\ UNCHANGED <<setupVars, exec_ctx, hostVars, storeVars, delVars, provVars, execVars,
                   instVars, toastVars, sudoVars, mkind, mperm, mname, mbody, mfail>>

\* lines 75, 88: the finally clause removes the directory recursively; an
\* exception of the body goes on after it
M_Finally ==
    /\ mpc = "finally"
    /\ tmpdirs' = {d \in tmpdirs : ~StartsWith(d, mname)}
    /\ mpc' = "left"
    /\ UNCHANGED <<setupVars, exec_ctx, err, hostVars, storeVars, delVars, provVars, execVars,
                   instVars, toastVars, sudoVars, mkind, mperm, mname, mbody, mfail>>

TmpNext == M_Create \/ M_Chmod \/ M_Body \/ M_Finally

TmpInit ==
    /\ SetupIdle
    /\ exec_ctx \in Contexts
    /\ err = NoError
    /\ HostsIdle
    /\ StoreIdle
    /\ DelIdle
    /\ ProvIdle
    /\ ExecIdle
    /\ InstIdle
    /\ ToastIdle
    /\ SudoIdle
    /\ mkind \in {"local", "hdfs"}
    /\ mperm \in {"755", "777"}
    /\ mname = <<>>
    /\ mbody \in {"returns", "raises"}
    /\ mfail \in {"none", "mkdir", "chmod"}
    /\ mpc = "start"
    /\ tmpdirs \in {{}, {<<"/", "tmp", "/", "other">>}}

SpecTmp == TmpInit /\ [][TmpNext]_vars

\* C19: once make_local_tmp or make_hdfs_tmp has created its directory, the
\* directory and what is in it are gone when control has left the context
\* manager: after a body that returns, after a body that raises, and after
\* a failed permission step of make_hdfs_tmp.
C19_TmpReleasedOnEveryExit ==
    (mpc = "left" /\ mname # <<>>) =>
        \A d \in tmpdirs : ~StartsWith(d, mname)

(***************************************************************************)
(* setup_master() (lines 242-268): the master is resolved and execute()    *)
(* runs do() on it; do() is a sequence of remote commands and of calls of  *)
(* functions of the module.                                                *)
(***************************************************************************)
NameError(name) == [type |-> "NameError", msg |-> <<name>>]

Run(what) == [kind |-> "run", what |-> what]
Call(name) == [kind |-> "call", what |-> name]

\* the install and setup functions the module defines (lines 170-239)
ModuleFunctions ==
    {"install_pypa", "install_git", "install_fabric_luigi", "install_adam",
     "install_eggo", "create_hdfs_users"}

\* lines 254-266: the statements of do() under a context
setup_steps(ctx) ==
    <<Run("mkdir work_path"), Call("install_pypa")>>
    \o (IF ctx = "director" THEN <<Call("install_git")>> ELSE <<>>)
    \o <<Call("install_fabric_luigi"), Call("install_adam"), Call("install_eggo")>>
    \o (IF ctx = "director" THEN <<Call("create_users")>> ELSE <<>>)
    \o (IF ctx = "spark_ec2" THEN <<Run("stop-all.sh"), Run("start-all.sh")>> ELSE <<>>)

\* line 268: hosts=get_master_host() is evaluated and execute() starts
S_Start ==
    /\ spc = "start"
    /\ err' = IF exec_ctx \in Contexts THEN err ELSE NotImplementedError(exec_ctx)
    /\ spc' = IF exec_ctx \in Contexts THEN "do" ELSE "raised"
    /\ UNCHANGED <<exec_ctx, hostVars, storeVars, delVars, provVars, execVars,
                   instVars, toastVars, sudoVars, tmpVars, sdone, sfail>>

\* the next statement of do(): a call of a name the module does not define
\* raises NameError; a remote command that fails makes fabric abort
S_Step ==
    /\ spc = "do"
    /\ LET steps == setup_steps(exec_ctx)
           i == Len(sdone) + 1
       IN  IF steps[i].kind = "call" /\ steps[i].what \notin ModuleFunctions
           THEN /\ err' = NameError(steps[i].what)
                /\ spc' = "raised"
                /\ sdone' = sdone
           ELSE IF sfail = i
           THEN /\ err' = SystemExit
                /\ spc' = "raised"
                /\ sdone' = sdone
           ELSE /\ sdone' = Append(sdone, steps[i].what)
                /\ spc' = IF i = Len(steps) THEN "done" ELSE "do"
                /\ err' = err
    /\ UNCHANGED <<exec_ctx, hostVars, storeVars, delVars, provVars, execVars,
                   instVars, toastVars, sudoVars, tmpVars, sfail>>

SetupNext == S_Start \/ S_Step

SetupInit ==
    /\ exec_ctx \in AllContexts
    /\ err = NoError
    /\ clusterMaster \in Hosts
    /\ clusterSlaves \in DistinctSeqs(Hosts \ {clusterMaster}, MaxSlaves)
    /\ hpc = "start"
    /\ masterRet = NoHost
    /\ slaveMaster = NoHost
    /\ hosts = <<>>
    /\ asked = NoHost
    /\ reported = <<>>
    /\ workers = <<>>
    /\ changes = 0
    /\ second = FALSE
    /\ stable = TRUE
    /\ observed = NoHost
    /\ StoreIdle
    /\ DelIdle
    /\ ProvIdle
    /\ ExecIdle
    /\ InstIdle
    /\ ToastIdle
    /\ SudoIdle
    /\ TmpIdle
    /\ spc = "start"
    /\ sdone = <<>>
    /\ sfail \in 0..Len(setup_steps(exec_ctx))

SpecSetup == SetupInit /\ [][SetupNext]_vars

\* the steps setup_master is to run, in order
ExpectedSetup(ctx) ==
    IF ctx = "director"
    THEN <<"mkdir work_path", "install_pypa", "install_git", "install_fabric_luigi",
           "install_adam", "install_eggo", "create_hdfs_users">>
    ELSE <<"mkdir work_path", "install_pypa", "install_fabric_luigi",
           "install_adam", "install_eggo", "stop-all.sh", "start-all.sh">>

\* C21: under director and under spark_ec2, a setup_master in which no
\* remote command fails ends without an error, having run in order: work
\* path, pip/setuptools, git (director), fabric/luigi, adam, eggo, and last
\* the creation of the HDFS home directory (director) or stop-all and
\* start-all of Hadoop (spark_ec2).
C21_SetupMasterRunsAllSteps ==
    (spc \in {"done", "raised"} /\ sfail = 0 /\ exec_ctx \in {"director", "spark_ec2"}) =>
        /\ spc = "done"
        /\ err = NoError
        /\ sdone = ExpectedSetup(exec_ctx)

HostsNext ==
    \/ WH_Master
    \/ WH_SlavesDirector
    \/ WH_SlavesResolveMaster
    \/ WH_SlavesRun
    \/ WH_SlavesLocal
    \/ WH_Return
    \/ WH_Again
    \/ BackendChange

HostsSpecInit ==
    /\ exec_ctx \in AllContexts
    /\ err = NoError
    /\ HostsInit
    /\ StoreIdle
    /\ DelIdle
    /\ ProvIdle
    /\ ExecIdle
    /\ InstIdle
    /\ AuxIdle

SpecHosts == HostsSpecInit /\ [][HostsNext]_vars

\* C1: under local, spark_ec2 and director a get_worker_hosts() call that
\* returns, returns the master the backend answered the call's first query
\* with ('localhost' under local) followed by the slaves in the order the
\* backend reported them: its length is at least 1 and its head is the value
\* get_master_host() returned.
C1_WorkersAreMasterThenSlaves ==
    hpc = "done" =>
        /\ exec_ctx \in Contexts
        /\ workers = <<IF exec_ctx = "local" THEN "localhost" ELSE asked>> \o reported
        /\ Len(workers) >= 1
        /\ workers[1] = masterRet

\* a spark_ec2 call that returned a master and two slaves after the
\* membership had changed
C1_Witness ==
    /\ hpc = "done"
    /\ exec_ctx = "spark_ec2"
    /\ Len(workers) = 3
    /\ changes > 0

\* the membership of the cluster as it is now
CurrentWorkers ==
    IF exec_ctx = "local" THEN <<"localhost">>
    ELSE <<clusterMaster>> \o clusterSlaves

\* C17: the resolver caches nothing: a get_worker_hosts() call during which
\* the membership did not change returns the membership the backend has
\* now, also when it is the second call of the process and the membership
\* changed since the first; get_master_host() and get_slave_hosts() inside
\* it returned the current master and the current slaves.
C17_ResolverReturnsCurrentMembership ==
    (hpc = "done" /\ stable /\ exec_ctx \in Contexts) =>
        /\ workers = CurrentWorkers
        /\ masterRet = CurrentWorkers[1]
        /\ hosts = Tail(CurrentWorkers)

\* a second call returned another master than the first, after a change
C17_Witness ==
    /\ hpc = "done"
    /\ second
    /\ stable
    /\ changes > 0
    /\ exec_ctx = "spark_ec2"
    /\ observed # workers[1]
    /\ workers = CurrentWorkers

\* C20: under spark_ec2 the host at the head of the list a
\* get_worker_hosts() call returns is the host that call asked for the
\* slave list, whatever the backend does during the call.
C20_HeadIsTheMasterAsked ==
    (hpc = "done" /\ exec_ctx = "spark_ec2") => workers[1] = slaveMaster

=============================================================================
